---- MODULE Spec2Model ----
(***************************************************************************)
(* A model of the Mattermost backend for errbot (mattermost.py):           *)
(*   - the websocket event dispatcher and its five per-kind handlers,      *)
(*   - identifier resolution with the memoised direct-channel lookup,      *)
(*   - the serve_once connection loop and its lifecycle callbacks,         *)
(*   - prepare_message_body, the outbound chunker,                         *)
(*   - build_identifier, query_room and rooms as plugins call them,        *)
(*   - the id property and the operations of MattermostRoom,               *)
(*   - send_message and its create_post requests.                          *)
(* A JSON object is modelled as a record whose missing keys hold the value   *)
(* Absent.                                                                  *)
(***************************************************************************)
EXTENDS Integers, Sequences, FiniteSets, TLC

VARIABLES
    pc,             \* position of serve_once: "idle" (not running) or "serving"
    calls,          \* number of serve_once calls made so far
    entered,        \* the current/last serve_once call reached its try block
    result,         \* return value of the last finished serve_once call
    teamid,         \* MattermostBackend.teamid
    bot_identifier, \* MattermostBackend.bot_identifier (userid), None before login
    direct_cache,   \* lru_cache of get_direct_channel: the cached other_user_ids
    received,       \* payloads handed to mattermost_event_handler on this connection
    payload,        \* the payload handled last
    outcome,        \* how the last mattermost_event_handler call ended
    fired,          \* the callbacks fired while handling the last payload, in order
    hellos,         \* hello events handled on this connection
    connected,      \* connect_callback invocations on this connection
    disconnected,   \* disconnect_callback invocations of the current/last serve_once call
    late,           \* event callbacks fired after the disconnect callback of this call
    exit,           \* how the try block of the last serve_once call was left
    prev,           \* history: how the payload before the last one was handled
    body,           \* prepare_message_body: the body argument
    size_limit,     \* prepare_message_body: the size_limit argument
    parts,          \* prepare_message_body: the returned list
    chunked,        \* prepare_message_body has returned
    resolutions,    \* build_identifier / query_room / rooms calls made by plugins
    resolution,     \* the last such call: its argument and what it returned or raised
    resolved,       \* history: per text, how often build_identifier gave a Person
                    \* for it, and the Person it gave the first time
    dm_calls,       \* per user id, the create_direct_message_channel requests issued
    room_obj,       \* a MattermostRoom held by a plugin: _name, _id, _teamid
    room_driver,    \* the driver that the room captured when it was constructed
    lookups,        \* get_channel_by_name requests the id property of the room has issued
    room_op,        \* the last operation on the room and what it returned or raised
    room_fired,     \* the callbacks that operation fired
    room_requests,  \* the platform requests of that operation that name a channel id
    room_ops,       \* operations on rooms so far, constructions included
    message_to,     \* send_message: message.to, None before the call
    config_limit,   \* bot_config.MESSAGE_SIZE_LIMIT
    post_failure,   \* which create_post request the platform refuses, and how
    posts,          \* the create_post requests send_message issued, in order
    send_result     \* how send_message ended: "returned" or the exception raised

identityVars == <<resolutions, resolution, resolved, dm_calls>>

roomVars == <<room_obj, room_driver, lookups, room_op, room_fired, room_requests,
             room_ops>>

sendVars == <<message_to, config_limit, post_failure, posts, send_result>>

vars == <<pc, calls, entered, result, teamid, bot_identifier, direct_cache,
          received, payload, outcome, fired, hellos, connected, disconnected,
          late, exit, prev, body, size_limit, parts, chunked, identityVars,
          roomVars, sendVars>>

serveVars == <<pc, calls, entered, result, teamid, bot_identifier, direct_cache,
               received, payload, outcome, fired, hellos, connected, disconnected,
               late, exit, prev>>

chunkVars == <<body, size_limit, parts, chunked>>

\* What the connection loop and the event handlers leave alone
restVars == <<chunkVars, identityVars, roomVars, sendVars>>

-----------------------------------------------------------------------------
(* Bounds of the model *)

MaxConnections == 2     \* serve_once calls explored
MaxEvents == 2          \* payloads delivered on one connection
MaxBodyLen == 8         \* characters in a message body
MaxLimit == 4           \* largest size_limit explored
MaxResolutions == 3     \* build_identifier / query_room / rooms calls explored
MaxSendLen == 3         \* characters in a short body handed to send_message
MaxRoomOps == 5         \* operations on rooms explored, constructions included

-----------------------------------------------------------------------------
(* Constants of the program *)

MATTERMOST_MESSAGE_LIMIT == 3994    \* the cap send_message puts on a part
PlatformMessageLimit == 4000        \* the platform's limit for one post

-----------------------------------------------------------------------------
(* Values *)

None == "<None>"            \* Python's None
Absent == "<absent>"        \* a key that is missing from a JSON object
ONLINE == "online"
AWAY == "away"

BoundTeam == "T1"           \* id of the team named in BOT_IDENTITY
OtherTeam == "T2"
BotId == "bot"              \* id the platform returns for user 'me'
UnknownUser == "ux"         \* an id the platform rejects

NoPerson == [kind |-> "None"]   \* bot_identifier before serve_once has logged in
NoRoom == [kind |-> "None"]     \* no MattermostRoom has been constructed

\* MattermostPerson.__init__
MattermostPerson(userid, channelid, tid) ==
    [kind |-> "Person", userid |-> userid, channelid |-> channelid, teamid |-> tid]

\* The value a function returns, or the exception it raised
Return(v) == [raised |-> FALSE, value |-> v]
Raise(e) == [raised |-> TRUE, value |-> e]

-----------------------------------------------------------------------------
(* The platform behind the driver, as far as the backend reads it *)

\* channels.get_channel: the 'name' of a channel, Absent in an error answer
get_channel(channelid) ==
    CASE channelid = "c1" -> "general"
      [] channelid = "d1" -> "bot__u1"
      [] channelid = "g1" -> "grp1"
      [] OTHER -> Absent

\* channels.get_channel_by_name: the 'id' of a channel, Absent in an error answer
get_channel_by_name(name) ==
    IF name = "general" THEN "c1" ELSE Absent

\* users.get_user_by_username: the 'id' of the user, None when there is none
get_user_by_username(name) ==
    CASE name = "alice" -> "u1"
      [] name = "bob" -> "u2"
      [] OTHER -> None

\* channels.create_direct_message_channel: the channel's 'id'; the platform
\* answers an id it does not know with InvalidOrMissingParameters, and gives a
\* user a direct channel with themselves
create_direct_message_channel(userid, other_user_id) ==
    CASE other_user_id = "u1" -> Return("d1")
      [] other_user_id = userid -> Return("d0")
      [] other_user_id = "u2" -> Return("d2")
      [] OTHER -> Raise("InvalidOrMissingParameters")

-----------------------------------------------------------------------------
(* Identity resolution *)

\* MattermostBackend.userid
userid_of_bot == bot_identifier.userid

\* MattermostBackend.channelid_to_channelname
channelid_to_channelname(channelid) ==
    IF get_channel(channelid) = Absent
    THEN Raise("RoomDoesNotExistError")
    ELSE Return(get_channel(channelid))

\* MattermostBackend.channelname_to_channelid
channelname_to_channelid(name) ==
    IF get_channel_by_name(name) = Absent
    THEN Raise("RoomDoesNotExistError")
    ELSE Return(get_channel_by_name(name))

\* MattermostBackend.username_to_userid; name.lstrip('@') has been applied
username_to_userid(name) ==
    IF get_user_by_username(name) = None
    THEN Raise("UserDoesNotExistError")
    ELSE Return(get_user_by_username(name))

\* str.startswith
startswith(s, prefix) ==
    Len(s) >= Len(prefix) /\ SubSeq(s, 1, Len(prefix)) = prefix

\* MattermostRoom.__init__; the new room, or the exception raised
MattermostRoom(name, channelid, tid) ==
    IF channelid # None /\ name # None THEN Raise("ValueError")
    ELSE IF tid = None THEN Raise("ValueError")
    ELSE LET named == IF name # None
                      THEN Return(IF startswith(name, "~")
                                  THEN SubSeq(name, 2, Len(name)) ELSE name)
                      ELSE channelid_to_channelname(channelid)
         IN  IF named.raised THEN named
             ELSE Return([kind |-> "Room", name |-> named.value,
                          id |-> channelid, teamid |-> tid])

\* MattermostRoomOccupant.__init__
MattermostRoomOccupant(tid, userid, channelid) ==
    LET room == MattermostRoom(None, channelid, tid)
    IN  IF room.raised THEN room
        ELSE Return([kind |-> "RoomOccupant", userid |-> userid,
                     channelid |-> channelid, teamid |-> tid, room |-> room.value])

\* A get_direct_channel without the lru_cache decorator
get_direct_channel_uncached(userid, other_user_id, cache) ==
    LET made == create_direct_message_channel(userid, other_user_id)
    IN  IF made.raised
        THEN [raised |-> TRUE, value |-> "RoomDoesNotExistError", cache |-> cache,
              issued |-> <<other_user_id>>]
        ELSE [raised |-> FALSE, value |-> made.value, cache |-> cache,
              issued |-> <<other_user_id>>]

\* MattermostBackend.get_direct_channel under lru_cache(1024): the channel id,
\* the cache afterwards, and the other_user_ids of the
\* create_direct_message_channel requests it issued. An exception is not cached.
\* The model stays far below the capacity of the cache, so nothing is evicted.
get_direct_channel(userid, other_user_id, cache) ==
    IF <<userid, other_user_id>> \in cache
    THEN [raised |-> FALSE,
          value |-> create_direct_message_channel(userid, other_user_id).value,
          cache |-> cache, issued |-> <<>>]
    ELSE LET made == create_direct_message_channel(userid, other_user_id)
         IN  IF made.raised
             THEN [raised |-> TRUE, value |-> "RoomDoesNotExistError", cache |-> cache,
                   issued |-> <<other_user_id>>]
             ELSE [raised |-> FALSE, value |-> made.value,
                   cache |-> cache \cup {<<userid, other_user_id>>},
                   issued |-> <<other_user_id>>]

\* MattermostBackend.build_identifier; txtrep.strip() has been applied
build_identifier(txtrep, cache) ==
    IF startswith(txtrep, "~")
    THEN LET channelid == channelname_to_channelid(SubSeq(txtrep, 2, Len(txtrep)))
             room == MattermostRoom(None, channelid.value, teamid)
         IN  IF channelid.raised
             THEN [raised |-> TRUE, value |-> channelid.value, cache |-> cache,
                   issued |-> <<>>]
             ELSE IF channelid.value = None
             THEN [raised |-> TRUE, value |-> "Exception", cache |-> cache,
                   issued |-> <<>>]
             ELSE [raised |-> room.raised, value |-> room.value, cache |-> cache,
                   issued |-> <<>>]
    ELSE LET userid == IF startswith(txtrep, "@")
                       THEN username_to_userid(SubSeq(txtrep, 2, Len(txtrep)))
                       ELSE Return(txtrep)
             channel == get_direct_channel(userid_of_bot, userid.value, cache)
         IN  IF userid.raised
             THEN [raised |-> TRUE, value |-> userid.value, cache |-> cache,
                   issued |-> <<>>]
             ELSE IF userid.value = None
             THEN [raised |-> TRUE, value |-> "Exception", cache |-> cache,
                   issued |-> <<>>]
             ELSE IF channel.raised THEN channel
             ELSE [raised |-> FALSE,
                   value |-> MattermostPerson(userid.value, channel.value, teamid),
                   cache |-> channel.cache, issued |-> channel.issued]

\* The loop of a mentions_build_identifier that does not skip the bot's own id
RECURSIVE mentions_from_with_bot(_, _, _, _)
mentions_from_with_bot(mentions, i, identifier, cache) ==
    IF i > Len(mentions)
    THEN [raised |-> FALSE, value |-> identifier, cache |-> cache, issued |-> <<>>]
    ELSE LET built == build_identifier(mentions[i], cache)
             rest == mentions_from_with_bot(mentions, i + 1,
                                            Append(identifier, built.value), built.cache)
         IN  IF built.raised THEN built
             ELSE [rest EXCEPT !.issued = built.issued \o rest.issued]

\* A mentions_build_identifier whose result may hold the bot's own identity
mentions_build_identifier_with_bot(mentions, cache) ==
    mentions_from_with_bot(mentions, 1, <<>>, cache)

\* MattermostBackend.mentions_build_identifier, from the i-th mention on
RECURSIVE mentions_from(_, _, _, _)
mentions_from(mentions, i, identifier, cache) ==
    IF i > Len(mentions)
    THEN [raised |-> FALSE, value |-> identifier, cache |-> cache, issued |-> <<>>]
    ELSE IF mentions[i] = bot_identifier.userid
    THEN mentions_from(mentions, i + 1, identifier, cache)
    ELSE LET built == build_identifier(mentions[i], cache)
             rest == mentions_from(mentions, i + 1, Append(identifier, built.value),
                                   built.cache)
         IN  IF built.raised THEN built
             ELSE [rest EXCEPT !.issued = built.issued \o rest.issued]

mentions_build_identifier(mentions, cache) ==
    mentions_from(mentions, 1, <<>>, cache)

-----------------------------------------------------------------------------
(* The per-kind event handlers. Each yields whether it raised, the callbacks *)
(* it fired in order, and the direct-channel cache it leaves behind.         *)

Handled(raised, callbacks, cache) ==
    [raised |-> raised, fired |-> callbacks, cache |-> cache]

\* MattermostBackend._room_joined_event_handler
room_joined_event_handler(message) ==
    IF ~message.data.present \/ message.data.user_id = Absent
    THEN Handled(TRUE, <<>>, direct_cache)
    ELSE IF message.data.user_id = userid_of_bot
    THEN Handled(FALSE, <<[cb |-> "room_joined"]>>, direct_cache)
    ELSE Handled(FALSE, <<>>, direct_cache)

\* A room-left handler that reads the user id where the room-joined handler
\* finds it, in the event's data
room_left_event_handler_data(message) ==
    IF ~message.data.present \/ message.data.user_id = Absent
    THEN Handled(TRUE, <<>>, direct_cache)
    ELSE IF message.data.user_id = userid_of_bot
    THEN Handled(FALSE, <<[cb |-> "room_left"]>>, direct_cache)
    ELSE Handled(FALSE, <<>>, direct_cache)

\* MattermostBackend._room_left_event_handler
room_left_event_handler(message) ==
    IF ~message.broadcast.present \/ message.broadcast.user_id = Absent
    THEN Handled(TRUE, <<>>, direct_cache)
    ELSE IF message.broadcast.user_id = userid_of_bot
    THEN Handled(FALSE, <<[cb |-> "room_left"]>>, direct_cache)
    ELSE Handled(FALSE, <<>>, direct_cache)

\* MattermostBackend._status_change_event_handler
status_change_event_handler(message) ==
    IF ~message.data.present \/ message.data.user_id = Absent
          \/ message.data.status = Absent
    THEN Handled(TRUE, <<>>, direct_cache)
    ELSE LET idd == MattermostPerson(message.data.user_id, None, None)
             status == IF message.data.status = "online" THEN ONLINE
                       ELSE IF message.data.status = "away" THEN AWAY
                       ELSE ONLINE
         IN  Handled(FALSE,
                     <<[cb |-> "presence", identifier |-> idd, status |-> status]>>,
                     direct_cache)

\* A hello handler that invokes connect_callback on the first hello only
hello_event_handler_once(message) ==
    Handled(FALSE,
            (IF connected = 0 THEN <<[cb |-> "connected"]>> ELSE <<>>)
            \o <<[cb |-> "presence", identifier |-> bot_identifier, status |-> ONLINE]>>,
            direct_cache)

\* A hello handler that emits the presence before it invokes connect_callback
hello_event_handler_presence_first(message) ==
    Handled(FALSE,
            <<[cb |-> "presence", identifier |-> bot_identifier, status |-> ONLINE],
              [cb |-> "connected"]>>,
            direct_cache)

\* MattermostBackend._hello_event_handler
hello_event_handler(message) ==
    Handled(FALSE,
            <<[cb |-> "connected"],
              [cb |-> "presence", identifier |-> bot_identifier, status |-> ONLINE]>>,
            direct_cache)

\* An addressing step whose final else branch is missing: a channel type other
\* than D, O and P is addressed like a direct message
message_addressing_no_else(text, file_ids, channel_type, channel, channelid, userid, mentions) ==
    LET m == [text |-> text, attachments |-> file_ids,
              frm |-> MattermostPerson(userid, channelid, teamid),
              to |-> MattermostPerson(bot_identifier.userid, channelid, teamid)]
    IN  IF channel_type = "O" \/ channel_type = "P"
        THEN LET frm == MattermostRoomOccupant(teamid, userid, channelid)
                 to == MattermostRoom(channel, None, teamid)
             IN  IF frm.raised \/ to.raised
                 THEN Handled(TRUE, <<>>, mentions.cache)
                 ELSE Handled(FALSE,
                              <<[cb |-> "message",
                                 msg |-> [m EXCEPT !.frm = frm.value, !.to = to.value]]>>,
                              mentions.cache)
        ELSE Handled(FALSE, <<[cb |-> "message", msg |-> m]>>, mentions.cache)

\* _message_event_handler, lines 276-293: addressing and the two callbacks
message_addressing(text, file_ids, channel_type, channel, channelid, userid, mentions) ==
    LET callbacks(frm, to) ==
            LET m == [text |-> text, attachments |-> file_ids, frm |-> frm, to |-> to]
            IN  <<[cb |-> "message", msg |-> m]>>
                \o (IF mentions.value # <<>>
                    THEN <<[cb |-> "mention", msg |-> m, mentions |-> mentions.value]>>
                    ELSE <<>>)
    IN  IF channel_type = "D"
        THEN Handled(FALSE,
                     callbacks(MattermostPerson(userid, channelid, teamid),
                               MattermostPerson(bot_identifier.userid, channelid, teamid)),
                     mentions.cache)
        ELSE IF channel_type = "O" \/ channel_type = "P"
        THEN LET frm == MattermostRoomOccupant(teamid, userid, channelid)
                 to == MattermostRoom(channel, None, teamid)
             IN  IF frm.raised \/ to.raised
                 THEN Handled(TRUE, <<>>, mentions.cache)
                 ELSE Handled(FALSE, callbacks(frm.value, to.value), mentions.cache)
        ELSE Handled(FALSE, <<>>, mentions.cache)

\* MattermostBackend._message_event_handler
message_event_handler(message) ==
    LET data == message.data
        broadcast == message.broadcast
        dropped == Handled(FALSE, <<>>, direct_cache)
        failed == Handled(TRUE, <<>>, direct_cache)
    IN
    IF ~data.present \/ data.team_id = Absent THEN failed
    ELSE IF data.team_id # "" /\ teamid # data.team_id THEN dropped
    ELSE IF ~broadcast.present THEN failed
    ELSE IF data.channel_id = Absent /\ broadcast.channel_id = Absent THEN dropped
    ELSE IF data.channel_type = Absent THEN failed
    ELSE IF data.channel_type # "D" /\ data.channel_name = Absent THEN failed
    ELSE
    LET channelid == IF data.channel_id # Absent THEN data.channel_id
                     ELSE broadcast.channel_id
        channel_type == data.channel_type
        channel == IF channel_type # "D" THEN data.channel_name ELSE channelid
        post == data.post
        hasPost == post.form # "absent"
    IN
    IF hasPost /\ (post.form = "invalid" \/ post.message = Absent
                      \/ post.user_id = Absent \/ post.id = Absent)
    THEN failed
    ELSE IF hasPost /\ post.type = "system_add_remove" THEN dropped
    ELSE
    LET text == IF hasPost THEN post.message ELSE ""
        file_ids == IF hasPost /\ post.file_ids # Absent THEN post.file_ids ELSE None
        userid == IF data.user_id # Absent THEN data.user_id
                  ELSE IF hasPost THEN post.user_id ELSE None
    IN
    IF userid = None \/ userid = "" THEN dropped
    ELSE IF data.mentions.form = "invalid" THEN failed
    ELSE
    LET mentions == IF data.mentions.form = "absent"
                    THEN [raised |-> FALSE, value |-> <<>>, cache |-> direct_cache]
                    ELSE mentions_build_identifier(data.mentions.ids, direct_cache)
    IN
    IF mentions.raised THEN Handled(TRUE, <<>>, mentions.cache)
    ELSE message_addressing(text, file_ids, channel_type, channel, channelid,
                            userid, mentions)

-----------------------------------------------------------------------------
(* The dispatcher *)

\* The keys of the event_handlers table of mattermost_event_handler
event_handlers ==
    {"posted", "status_change", "hello", "user_added", "user_removed"}

\* event_handlers.get(event)(payload)
event_handler(event, message) ==
    CASE event = "posted" -> message_event_handler(message)
      [] event = "status_change" -> status_change_event_handler(message)
      [] event = "hello" -> hello_event_handler(message)
      [] event = "user_added" -> room_joined_event_handler(message)
      [] event = "user_removed" -> room_left_event_handler(message)

Ended(how, callbacks, cache) ==
    [outcome |-> how, fired |-> callbacks, cache |-> cache]

\* The try block around event_handler(payload): without it an exception of the
\* handler leaves mattermost_event_handler
unguarded_event_handler(event, message) ==
    LET h == event_handler(event, message)
    IN  Ended(IF h.raised THEN "raised" ELSE "returned", h.fired, h.cache)

\* mattermost_event_handler, lines 190-193: try: event_handler(payload)
\* except Exception: log.exception(...)
try_event_handler(event, message) ==
    LET h == event_handler(event, message)
    IN  Ended(IF h.raised THEN "caught" ELSE "returned", h.fired, h.cache)

\* A dispatcher whose table lookup falls back to the posted handler
mattermost_event_handler_default(p) ==
    IF p.json = "empty" THEN Ended("returned", <<>>, direct_cache)
    ELSE IF p.json \in {"invalid", "scalar", "array_event", "string_event"}
    THEN Ended("raised", <<>>, direct_cache)
    ELSE IF p.json \in {"array", "string"} THEN Ended("returned", <<>>, direct_cache)
    ELSE IF p.event = Absent THEN Ended("returned", <<>>, direct_cache)
    ELSE IF p.json = "object_unhashable_event" THEN Ended("raised", <<>>, direct_cache)
    ELSE IF p.event \notin event_handlers THEN try_event_handler("posted", p)
    ELSE try_event_handler(p.event, p)

\* MattermostBackend.mattermost_event_handler. p.json tells what json.loads makes
\* of the text: "empty" is the empty text, "invalid" is not JSON, "scalar" is
\* null, a number or a boolean, "array" and "string" hold no 'event' member or
\* substring, "array_event" and "string_event" do, "object" is a JSON object,
\* "object_unhashable_event" a JSON object whose 'event' is a list or an object,
\* which event_handlers.get cannot hash.
mattermost_event_handler(p) ==
    IF p.json = "empty" THEN Ended("returned", <<>>, direct_cache)
    ELSE IF p.json = "invalid" THEN Ended("raised", <<>>, direct_cache)
    ELSE IF p.json = "scalar" THEN Ended("raised", <<>>, direct_cache)
    ELSE IF p.json \in {"array", "string"} THEN Ended("returned", <<>>, direct_cache)
    ELSE IF p.json \in {"array_event", "string_event"}
    THEN Ended("raised", <<>>, direct_cache)
    ELSE IF p.event = Absent THEN Ended("returned", <<>>, direct_cache)
    ELSE IF p.json = "object_unhashable_event" THEN Ended("raised", <<>>, direct_cache)
    ELSE IF p.event \notin event_handlers THEN Ended("returned", <<>>, direct_cache)
    ELSE try_event_handler(p.event, p)

-----------------------------------------------------------------------------
(* The payloads the stream delivers *)

NoPost == [form |-> "absent", message |-> Absent, user_id |-> Absent,
           id |-> Absent, type |-> Absent, file_ids |-> Absent]
Post(message, userid, id, type, file_ids) ==
    [form |-> "object", message |-> message, user_id |-> userid, id |-> id,
     type |-> type, file_ids |-> file_ids]
\* data.post, a JSON-encoded string that is decoded a second time
Posts ==
    { NoPost,
      [NoPost EXCEPT !.form = "invalid"],
      Post("hi", "u1", "p1", Absent, Absent),
      Post("hi", "u1", "p1", "", "f1"),
      Post("joined", "u1", "p1", "system_add_remove", Absent),
      Post("hi", Absent, "p1", Absent, Absent),
      Post(Absent, "u1", "p1", Absent, Absent) }

NoMentions == [form |-> "absent", ids |-> <<>>]
\* data.mentions, a JSON-encoded list of user ids
Mentions ==
    { NoMentions,
      [form |-> "invalid", ids |-> <<>>] }
    \cup { [form |-> "list", ids |-> ids] :
             ids \in { <<>>, <<BotId>>, <<"u1">>, <<BotId, "u2">>, <<"u1", "u2">>,
                       <<UnknownUser>>, <<"u1", UnknownUser>> } }

NoData == [present |-> FALSE, team_id |-> Absent, channel_id |-> Absent,
           channel_type |-> Absent, channel_name |-> Absent, user_id |-> Absent,
           status |-> Absent, post |-> NoPost, mentions |-> NoMentions]
NoBroadcast == [present |-> FALSE, channel_id |-> Absent, user_id |-> Absent]
Broadcast(channelid, userid) ==
    [present |-> TRUE, channel_id |-> channelid, user_id |-> userid]

NotAnObject(json) ==
    [json |-> json, event |-> Absent, data |-> NoData, broadcast |-> NoBroadcast]
Envelope(event, data, broadcast) ==
    [json |-> "object", event |-> event, data |-> data, broadcast |-> broadcast]

TeamIds == {Absent, "", BoundTeam, OtherTeam}

PostedData(team, channelid, type, name, userid, post, mentions) ==
    [present |-> TRUE, team_id |-> team, channel_id |-> channelid,
     channel_type |-> type, channel_name |-> name, user_id |-> userid,
     status |-> Absent, post |-> post, mentions |-> mentions]

GoodPost == Post("hi", "u1", "p1", Absent, Absent)

\* posted events: every team id, channel type and sender source; the other
\* shapes of the embedded post; the places a channel id can come from; the
\* mention lists
PostedPayloads ==
    { Envelope("posted", PostedData(team, "c1", type, "general", userid, post, NoMentions),
               Broadcast(Absent, Absent)) :
        team \in TeamIds, type \in {"D", "O", "P", "G"}, userid \in {Absent, "u2"},
        post \in {NoPost, GoodPost, Post("joined", "u1", "p1", "system_add_remove", Absent),
                  [NoPost EXCEPT !.form = "invalid"]} }
    \cup
    { Envelope("posted", PostedData(BoundTeam, "c1", type, "general", userid, post,
                                    NoMentions),
               Broadcast(Absent, Absent)) :
        type \in {"D", "O"}, userid \in {Absent, ""}, post \in Posts }
    \cup
    { Envelope("posted", PostedData(BoundTeam, channelid, type, name, Absent, GoodPost,
                                    NoMentions),
               broadcast) :
        channelid \in {Absent, "c1", "cx"}, type \in {Absent, "D", "O"},
        name \in {Absent, "general"},
        broadcast \in {NoBroadcast, Broadcast(Absent, Absent), Broadcast("c1", Absent)} }
    \cup
    { Envelope("posted", PostedData(team, "c1", type, "general", Absent, GoodPost,
                                    mentions),
               Broadcast(Absent, Absent)) :
        team \in {BoundTeam, OtherTeam}, type \in {"D", "O", "G"},
        mentions \in Mentions }
    \cup { Envelope("posted", NoData, Broadcast(Absent, Absent)) }

\* status_change and hello events carry no team id of their own
StatusChangePayloads ==
    { Envelope("status_change",
               [NoData EXCEPT !.present = TRUE, !.team_id = team,
                              !.user_id = userid, !.status = status],
               Broadcast(Absent, Absent)) :
        team \in {Absent, ""}, userid \in {Absent, "u1", BotId},
        status \in {Absent, "online", "away", "dnd"} }
    \cup { Envelope("status_change", NoData, NoBroadcast) }

HelloPayloads ==
    { Envelope("hello", [NoData EXCEPT !.present = TRUE, !.team_id = team],
               Broadcast(Absent, Absent)) : team \in {Absent, ""} }
    \cup { Envelope("hello", NoData, NoBroadcast) }

UserAddedPayloads ==
    { Envelope("user_added",
               [NoData EXCEPT !.present = TRUE, !.team_id = team, !.user_id = userid],
               Broadcast("c1", Absent)) :
        team \in TeamIds, userid \in {Absent, BotId, "u1"} }
    \cup { Envelope("user_added", NoData, NoBroadcast) }

UserRemovedPayloads ==
    { Envelope("user_removed",
               [NoData EXCEPT !.present = TRUE, !.team_id = team],
               Broadcast("c1", userid)) :
        team \in TeamIds, userid \in {Absent, BotId, "u1"} }
    \cup { Envelope("user_removed", NoData, NoBroadcast) }

\* events of kinds the dispatch table does not hold, shaped like known ones
UnknownKindPayloads ==
    { Envelope(event, data, broadcast) :
        event \in {"typing", "channel_viewed"},
        data \in { NoData,
                   PostedData(BoundTeam, "c1", "D", "general", Absent, GoodPost,
                              [form |-> "list", ids |-> <<"u2">>]),
                   [NoData EXCEPT !.present = TRUE, !.team_id = OtherTeam,
                                  !.user_id = BotId, !.status = "away"] },
        broadcast \in {NoBroadcast, Broadcast("c1", BotId)} }

MalformedPayloads ==
    { NotAnObject(json) :
        json \in {"invalid", "scalar", "array", "array_event", "string",
                  "string_event"} }
    \cup { Envelope(Absent, NoData, NoBroadcast),
           Envelope(Absent, [NoData EXCEPT !.present = TRUE, !.team_id = BoundTeam],
                    Broadcast("c1", BotId)),
           [Envelope("<unhashable>", NoData, NoBroadcast)
               EXCEPT !.json = "object_unhashable_event"] }

Payloads ==
    {NotAnObject("empty")} \cup MalformedPayloads \cup UnknownKindPayloads
    \cup PostedPayloads \cup StatusChangePayloads \cup HelloPayloads
    \cup UserAddedPayloads \cup UserRemovedPayloads

-----------------------------------------------------------------------------
(* The outbound chunker *)

\* A string of the module cannot hold a backtick: the model's text writes the
\* apostrophe where the program's text has a backtick.
Backtick == "'"
Fence == Backtick \o Backtick \o Backtick  \* the triple-backtick marker
OpenFence == Fence \o "\n"             \* prepended to a part continuing a fixed block
CloseFence == "\n" \o Fence \o "\n"     \* appended to a part leaving a block open

Min(a, b) == IF a < b THEN a ELSE b

\* str.count(sub) from position i on: occurrences that do not overlap. The
\* scan goes from one occurrence to the next, as CPython's does.
RECURSIVE count_from(_, _, _)
count_from(s, sub, i) ==
    LET found == {j \in i..(Len(s) - Len(sub) + 1) :
                     SubSeq(s, j, j + Len(sub) - 1) = sub}
        first == CHOOSE j \in found : \A k \in found : j <= k
    IN  IF found = {} THEN 0
        ELSE 1 + count_from(s, sub, first + Len(sub))

\* str.count
count(s, sub) == count_from(s, sub, 1)

\* A splitter that is off by one: slices of n + 1 characters
split_string_after_long(str_, n) ==
    [k \in 1..((Len(str_) + n) \div (n + 1)) |->
        SubSeq(str_, (k - 1) * (n + 1) + 1, Min(k * (n + 1), Len(str_)))]

\* errbot.utils.split_string_after as called on line 457: the slices
\* str_[start:start + n] for start in range(0, len(str_), n)
split_string_after(str_, n) ==
    [k \in 1..((Len(str_) + n - 1) \div n) |->
        SubSeq(str_, (k - 1) * n + 1, Min(k * n, Len(str_)))]

\* A closing step that appends a fence to every part that holds a fence
close_any_block(part) ==
    IF count(part, Fence) # 0 THEN part \o CloseFence ELSE part

\* prepare_message_body, lines 461-462 and 472-473: close an open fixed block
close_fixed_block(part) ==
    IF count(part, Fence) % 2 # 0 THEN part \o CloseFence ELSE part

\* prepare_message_body, lines 465-469: continue a fixed block from the last part
continue_fixed_block(fixed_format, part) ==
    IF fixed_format /\ ~startswith(part, Fence) THEN OpenFence \o part ELSE part

\* MattermostBackend.prepare_message_body
prepare_message_body(text, limit) ==
    LET fixed_format == startswith(text, Fence)
        split == split_string_after(text, limit)
    IN  IF Len(split) = 1
        THEN <<close_fixed_block(split[1])>>
        ELSE [i \in 1..Len(split) |->
                 close_fixed_block(continue_fixed_block(fixed_format, split[i]))]

\* The message bodies explored: every text of at most MaxBodyLen characters
\* over a backtick, a letter and a line break
Alphabet == {Backtick, "a", "\n"}
RECURSIVE TextsOfLen(_)
TextsOfLen(n) ==
    IF n = 0 THEN {""} ELSE {s \o c : s \in TextsOfLen(n - 1), c \in Alphabet}
Bodies == UNION {TextsOfLen(n) : n \in 0..MaxBodyLen}

-----------------------------------------------------------------------------
(* serve_once and the connection loop *)

\* Number of entries of a callback sequence that are the callback cb
RECURSIVE CountCallbacks(_, _)
CountCallbacks(callbacks, cb) ==
    IF callbacks = <<>> THEN 0
    ELSE (IF Head(callbacks).cb = cb THEN 1 ELSE 0)
         + CountCallbacks(Tail(callbacks), cb)

\* A serve_once without the finally clause
no_finally_disconnect == disconnected

\* serve_once, lines 402-404: the finally clause calls disconnect_callback
finally_disconnect == disconnected + 1

\* serve_once, lines 397-399: except KeyboardInterrupt: return True
except_KeyboardInterrupt == "True"

\* serve_once, lines 400-401: except Exception: log.exception(...); the function
\* then ends without a return statement
except_Exception == None

InitServe ==
    /\ pc = "idle"
    /\ calls = 0
    /\ entered = FALSE
    /\ result = "unset"
    /\ exit = "none"
    /\ teamid = ""
    /\ bot_identifier = NoPerson
    /\ direct_cache = {}
    /\ received = 0
    /\ payload = NotAnObject("empty")
    /\ outcome = "none"
    /\ fired = <<>>
    /\ hellos = 0
    /\ connected = 0
    /\ disconnected = 0
    /\ late = 0
    /\ prev = "none"

\* The texts plugins hand to build_identifier, and the user ids they stand for
RoomNames == {"general", "~general", "nothere"}
Texts == {"@alice", "@bob", "@nobody", "~general", "~nothere", "u1", UnknownUser}
UserIds == {"u1", "u2", UnknownUser, BotId}

\* No plugin has resolved anything yet
InitIdentity ==
    /\ resolutions = 0
    /\ resolution = [op |-> "none", arg |-> None, raised |-> FALSE, value |-> None]
    /\ resolved = [t \in Texts |-> [times |-> 0, first |-> NoPerson]]
    /\ dm_calls = [u \in UserIds |-> 0]

\* No plugin holds a room yet
InitRoom ==
    /\ room_obj = NoRoom
    /\ room_driver = None
    /\ lookups = 0
    /\ room_op = [op |-> "none", raised |-> FALSE, value |-> None]
    /\ room_fired = <<>>
    /\ room_requests = <<>>
    /\ room_ops = 0

\* send_message has not been called
InitSend ==
    /\ message_to = None
    /\ config_limit = 1
    /\ post_failure = [at |-> 0, exc |-> None]
    /\ posts = <<>>
    /\ send_result = "none"

Init ==
    /\ InitServe
    /\ InitIdentity
    /\ InitRoom
    /\ InitSend
    /\ body = ""
    /\ size_limit = 1
    /\ parts = <<>>
    /\ chunked = FALSE

\* serve_once, lines 374-394: log in, bind the team and the bot's identity, open
\* the websocket. A new call starts a new connection.
ServeOnce ==
    /\ pc = "idle"
    /\ calls < MaxConnections
    /\ calls' = calls + 1
    /\ pc' = "serving"
    /\ entered' = TRUE
    /\ result' = "unset"
    /\ exit' = "none"
    /\ teamid' = BoundTeam
    /\ bot_identifier' = MattermostPerson(BotId, None, BoundTeam)
    /\ received' = 0
    /\ payload' = NotAnObject("empty")
    /\ outcome' = "none"
    /\ fired' = <<>>
    /\ hellos' = 0
    /\ connected' = 0
    /\ disconnected' = 0
    /\ late' = 0
    /\ prev' = "none"
    /\ UNCHANGED direct_cache
    /\ UNCHANGED restVars

\* serve_once, line 383: driver.login() raises before the try block is reached
LoginFails ==
    /\ pc = "idle"
    /\ calls < MaxConnections
    /\ calls' = calls + 1
    /\ entered' = FALSE
    /\ result' = "raised"
    /\ exit' = "none"
    /\ received' = 0
    /\ payload' = NotAnObject("empty")
    /\ outcome' = "none"
    /\ fired' = <<>>
    /\ hellos' = 0
    /\ connected' = 0
    /\ disconnected' = 0
    /\ late' = 0
    /\ prev' = "none"
    /\ UNCHANGED <<pc, teamid, bot_identifier, direct_cache>>
    /\ UNCHANGED restVars

\* The websocket loop is running and no exception has left the handler
Listening == pc = "serving" /\ outcome # "raised"

\* History: what became of the payload handled last
Handling ==
    CASE outcome = "none" -> "none"
      [] outcome = "caught" -> "caught"
      [] outcome = "returned" /\ payload.json = "object" /\ payload.event # Absent
           /\ payload.event \notin event_handlers -> "ignored"
      [] OTHER -> "handled"

\* The websocket loop hands one payload to mattermost_event_handler
Dispatch ==
    /\ Listening
    /\ received < MaxEvents
    /\ \E p \in Payloads : \E h \in {mattermost_event_handler(p)} :
             /\ payload' = p
             /\ outcome' = h.outcome
             /\ fired' = h.fired
             /\ direct_cache' = h.cache
             /\ connected' = connected + CountCallbacks(h.fired, "connected")
             /\ hellos' = hellos + (IF p.json = "object" /\ p.event = "hello"
                                    THEN 1 ELSE 0)
             /\ late' = late + (IF disconnected > 0 THEN Len(h.fired) ELSE 0)
    /\ received' = received + 1
    /\ prev' = Handling
    /\ UNCHANGED <<pc, calls, entered, result, exit, teamid, bot_identifier,
                   disconnected>>
    /\ UNCHANGED restVars

\* serve_once, lines 397-399 and 402-404: KeyboardInterrupt ends the loop
Interrupt ==
    /\ Listening
    /\ pc' = "idle"
    /\ exit' = "KeyboardInterrupt"
    /\ result' = except_KeyboardInterrupt
    /\ disconnected' = finally_disconnect
    /\ UNCHANGED <<calls, entered, teamid, bot_identifier, direct_cache, received,
                   payload, outcome, fired, hellos, connected, late, prev>>
    /\ UNCHANGED restVars

\* serve_once, lines 400-404: any other exception ends the loop: a transport
\* error of the websocket, or an exception that left mattermost_event_handler
\* and travelled up through the driver's loop
StreamError ==
    /\ pc = "serving"
    /\ pc' = "idle"
    /\ exit' = "Exception"
    /\ result' = except_Exception
    /\ disconnected' = finally_disconnect
    /\ UNCHANGED <<calls, entered, teamid, bot_identifier, direct_cache, received,
                   payload, outcome, fired, hellos, connected, late, prev>>
    /\ UNCHANGED restVars

Next ==
    \/ ServeOnce
    \/ LoginFails
    \/ Dispatch
    \/ Interrupt
    \/ StreamError

Spec == Init /\ [][Next]_vars

-----------------------------------------------------------------------------
(* prepare_message_body applied to every body and size limit of the bounds *)

InitChunk ==
    /\ InitServe
    /\ InitIdentity
    /\ InitRoom
    /\ InitSend
    /\ body \in Bodies
    /\ size_limit \in 1..MaxLimit
    /\ parts = <<>>
    /\ chunked = FALSE

PrepareMessageBody ==
    /\ ~chunked
    /\ parts' = prepare_message_body(body, size_limit)
    /\ chunked' = TRUE
    /\ UNCHANGED <<body, size_limit>>
    /\ UNCHANGED <<serveVars, identityVars, roomVars, sendVars>>

NextChunk == PrepareMessageBody

SpecChunk == InitChunk /\ [][NextChunk]_vars

-----------------------------------------------------------------------------
(* Plugins resolving identifiers and rooms, before and after serve_once has *)
(* logged in                                                                *)

\* Before serve_once the driver is None and every platform request raises
\* AttributeError; after a failed login the platform refuses the request
not_logged_in ==
    IF calls = 0 THEN Raise("AttributeError") ELSE Raise("NoAccessTokenProvided")

\* MattermostBackend.query_room
query_room(room) == MattermostRoom(room, None, teamid)

\* channels.get_channels_for_user: the bot's channels in the bound team; direct
\* and group channels belong to no team
get_channels_for_user ==
    <<[id |-> "c1", type |-> "O", team_id |-> BoundTeam],
      [id |-> "d1", type |-> "D", team_id |-> ""],
      [id |-> "g1", type |-> "G", team_id |-> ""]>>

\* MattermostBackend.rooms, from the i-th joined channel on
RECURSIVE rooms_from(_, _)
rooms_from(channels, i) ==
    IF i > Len(channels) THEN Return(<<>>)
    ELSE IF channels[i].type = "D" THEN rooms_from(channels, i + 1)
    ELSE LET room == MattermostRoom(None, channels[i].id, channels[i].team_id)
             rest == rooms_from(channels, i + 1)
         IN  IF room.raised THEN room
             ELSE IF rest.raised THEN rest
             ELSE Return(<<room.value>> \o rest.value)

\* MattermostBackend.rooms
rooms == rooms_from(get_channels_for_user, 1)

\* Number of entries of a sequence that equal x
RECURSIVE Occurrences(_, _)
Occurrences(seq, x) ==
    IF seq = <<>> THEN 0
    ELSE (IF Head(seq) = x THEN 1 ELSE 0) + Occurrences(Tail(seq), x)

\* A plugin calls build_identifier
BuildIdentifier ==
    /\ resolutions < MaxResolutions
    /\ \E t \in Texts :
         \E b \in {IF bot_identifier = NoPerson
                   THEN [raised |-> TRUE, value |-> not_logged_in.value,
                         cache |-> direct_cache, issued |-> <<>>]
                   ELSE build_identifier(t, direct_cache)} :
             /\ resolution' = [op |-> "build_identifier", arg |-> t,
                               raised |-> b.raised, value |-> b.value]
             /\ direct_cache' = b.cache
             /\ dm_calls' = [u \in UserIds |-> dm_calls[u] + Occurrences(b.issued, u)]
             /\ resolved' = IF b.raised \/ b.value.kind # "Person" THEN resolved
                             ELSE [resolved EXCEPT ![t] =
                                      [times |-> @.times + 1,
                                       first |-> IF @.times = 0 THEN b.value
                                                 ELSE @.first]]
    /\ resolutions' = resolutions + 1
    /\ UNCHANGED <<pc, calls, entered, result, teamid, bot_identifier, received,
                   payload, outcome, fired, hellos, connected, disconnected, late,
                   exit, prev>>
    /\ UNCHANGED <<chunkVars, sendVars, roomVars>>

\* A plugin calls query_room; the constructor makes no platform request
QueryRoom ==
    /\ resolutions < MaxResolutions
    /\ \E name \in RoomNames : \E r \in {query_room(name)} :
             resolution' = [op |-> "query_room", arg |-> name,
                            raised |-> r.raised, value |-> r.value]
    /\ resolutions' = resolutions + 1
    /\ UNCHANGED <<serveVars, chunkVars, sendVars, roomVars, resolved, dm_calls>>

\* A plugin calls rooms
Rooms ==
    /\ resolutions < MaxResolutions
    /\ \E r \in {IF bot_identifier = NoPerson THEN not_logged_in ELSE rooms} :
             resolution' = [op |-> "rooms", arg |-> None,
                            raised |-> r.raised, value |-> r.value]
    /\ resolutions' = resolutions + 1
    /\ UNCHANGED <<serveVars, chunkVars, sendVars, roomVars, resolved, dm_calls>>

NextIdentity ==
    \/ ServeOnce
    \/ LoginFails
    \/ BuildIdentifier
    \/ QueryRoom
    \/ Rooms

SpecIdentity == Init /\ [][NextIdentity]_vars

-----------------------------------------------------------------------------
(* Operations on a MattermostRoom. The platform may refuse any request: the  *)
(* answer to a name lookup and the outcome of every request that changes a   *)
(* channel are chosen freely.                                                *)

\* What became of a Room operation: the result, the room afterwards, the name
\* lookups it issued and the callbacks it fired; the requests that name a
\* channel id are added by Calling
Operated(res, r, looked, callbacks) ==
    [raised |-> res.raised, value |-> res.value, room |-> r, lookups |-> looked,
     fired |-> callbacks, requests |-> <<>>]

\* The operation issued the platform request api for the channel channel_id
Request(api, channel_id) == [api |-> api, channel_id |-> channel_id]
Calling(done, requests) == [done EXCEPT !.requests = requests]

\* An id property that asks the platform at every read
room_id_unmemoised(r, driver, answer) ==
    IF driver = None THEN Operated(Raise("AttributeError"), r, 0, <<>>)
    ELSE IF answer = Absent
    THEN Operated(Raise("RoomDoesNotExistError"), r, 1, <<>>)
    ELSE Operated(Return(answer), [r EXCEPT !.id = answer], 1, <<>>)

\* MattermostRoom.id with MattermostRoom._channel: answer is the 'id' of the
\* platform's answer to get_channel_by_name, Absent in an error answer
room_id(r, driver, answer) ==
    IF r.id # None THEN Operated(Return(r.id), r, 0, <<>>)
    ELSE IF driver = None THEN Operated(Raise("AttributeError"), r, 0, <<>>)
    ELSE IF answer = Absent
    THEN Operated(Raise("RoomDoesNotExistError"), r, 1, <<>>)
    ELSE Operated(Return(answer), [r EXCEPT !.id = answer], 1, <<>>)

\* The outcomes of a platform request that changes a channel
Outcomes == {"ok", "InvalidOrMissingParameters", "NotEnoughPermissions",
             "ResourceNotFound"}

\* MattermostRoom.destroy: deleted is the outcome of delete_channel
destroy(r, driver, answer, deleted) ==
    LET read == room_id(r, driver, answer)
        requests == <<Request("delete_channel", read.value)>>
    IN  IF read.raised THEN read
        ELSE IF deleted = "ok"
        THEN Calling(Operated(Return(None), [read.room EXCEPT !.id = None],
                              read.lookups, <<[cb |-> "room_left"]>>), requests)
        ELSE IF deleted \in {"InvalidOrMissingParameters", "NotEnoughPermissions"}
        THEN Calling(Operated(Raise("RoomError"), read.room, read.lookups, <<>>),
                     requests)
        ELSE Calling(Operated(Raise(deleted), read.room, read.lookups, <<>>), requests)

\* MattermostRoom.create: created is the outcome of create_channel, found that
\* of the get_channel_by_name request after it; neither names a channel id
create(r, driver, created, found) ==
    IF driver = None THEN Operated(Raise("AttributeError"), r, 0, <<>>)
    ELSE LET failed == IF created # "ok" THEN created ELSE found
         IN  IF failed = "ok"
             THEN Operated(Return(None), r, 0,
                           <<[cb |-> "room_joined", by |-> "create"]>>)
             ELSE IF failed \in {"NotEnoughPermissions", "ResourceNotFound"}
             THEN Operated(Raise("RoomError"), r, 0, <<>>)
             ELSE Operated(Raise(failed), r, 0, <<>>)

\* What the platform does with a request for channel_id: it refuses a request
\* that names no channel
Refusing(channel_id, wanted) ==
    IF channel_id = None /\ wanted = "ok" THEN "InvalidOrMissingParameters"
    ELSE wanted

\* MattermostRoom.join: listed is the value of self.exists, added the outcome
\* of add_user
join(r, driver, listed, created, found, added) ==
    IF driver = None THEN Operated(Raise("AttributeError"), r, 0, <<>>)
    ELSE LET made == IF listed THEN Operated(Return(None), r, 0, <<>>)
                     ELSE create(r, driver, created, found)
             requests == <<Request("add_user", r.id)>>
             joined == Refusing(r.id, added)
         IN  IF made.raised THEN made
             ELSE IF joined = "ok"
             THEN Calling(Operated(Return(None), r, 0,
                                   made.fired
                                   \o <<[cb |-> "room_joined", by |-> "join"]>>),
                          requests)
             ELSE IF joined \in {"InvalidOrMissingParameters", "NotEnoughPermissions"}
             THEN Calling(Operated(Raise("RoomError"), r, 0, made.fired), requests)
             ELSE Calling(Operated(Raise(joined), r, 0, made.fired), requests)

\* MattermostRoom.leave: has_id tells whether the backend object has the
\* attribute id that line 704 reads, removed is the outcome of
\* remove_user_from_channel
leave(r, driver, answer, has_id, removed) ==
    LET read == room_id(r, driver, answer)
        requests == <<Request("remove_user_from_channel", read.value)>>
    IN  IF read.raised THEN read
        ELSE IF ~has_id
        THEN Operated(Raise("AttributeError"), read.room, read.lookups, <<>>)
        ELSE IF removed = "ok"
        THEN Calling(Operated(Return(None), read.room, read.lookups,
                              <<[cb |-> "room_left"]>>), requests)
        ELSE IF removed \in {"InvalidOrMissingParameters", "NotEnoughPermissions"}
        THEN Calling(Operated(Raise("RoomError"), read.room, read.lookups, <<>>),
                     requests)
        ELSE Calling(Operated(Raise(removed), read.room, read.lookups, <<>>), requests)

\* The setter of MattermostRoom.topic: updated is the outcome of update_channel
set_topic(r, driver, answer, updated) ==
    LET read == room_id(r, driver, answer)
        requests == <<Request("update_channel", read.value)>>
    IN  IF read.raised THEN read
        ELSE IF updated = "ok"
        THEN Calling(Operated(Return(None), read.room, read.lookups, <<>>), requests)
        ELSE Calling(Operated(Raise(updated), read.room, read.lookups, <<>>), requests)

\* The setter of MattermostRoom.purpose
set_purpose(r, driver, answer, updated) ==
    LET read == room_id(r, driver, answer)
        requests == <<Request("update_channel", read.value)>>
    IN  IF read.raised THEN read
        ELSE IF updated = "ok"
        THEN Calling(Operated(Return(None), read.room, read.lookups, <<>>), requests)
        ELSE Calling(Operated(Raise(updated), read.room, read.lookups, <<>>), requests)

\* MattermostRoom.invite: the team has members, so get_users is asked for the
\* users not in the channel. Line 733 indexes that list with its own elements,
\* which raises TypeError when there is one; with none, every invited name is
\* unknown. add_user is never reached.
invite(r, driver, answer, not_in_channel, args) ==
    LET read == room_id(r, driver, answer)
        requests == <<Request("get_users", read.value)>>
    IN  IF driver = None THEN Operated(Raise("AttributeError"), r, 0, <<>>)
        ELSE IF read.raised THEN read
        ELSE IF not_in_channel # <<>>
        THEN Calling(Operated(Raise("TypeError"), read.room, read.lookups, <<>>),
                     requests)
        ELSE IF args # <<>>
        THEN Calling(Operated(Raise("UserDoesNotExistError"), read.room,
                              read.lookups, <<>>), requests)
        ELSE Calling(Operated(Return(None), read.room, read.lookups, <<>>), requests)

\* The answers the platform may give to the name lookup of a room
Answers(r) == {get_channel_by_name(r.name), Absent}

\* A plugin obtains a room: by name from query_room, or, once logged in, by
\* channel id as rooms() and build_identifier('~name') construct it
GetRoom ==
    /\ room_ops < MaxRoomOps
    /\ \E made \in {query_room(name) : name \in RoomNames}
                  \cup (IF bot_identifier = NoPerson THEN {}
                        ELSE {MattermostRoom(None, "c1", teamid)}) :
          /\ ~made.raised
          /\ room_obj' = made.value
    /\ room_driver' = IF calls = 0 THEN None ELSE "Driver"
    /\ lookups' = 0
    /\ room_op' = [op |-> "construct", raised |-> FALSE, value |-> None]
    /\ room_fired' = <<>>
    /\ room_requests' = <<>>
    /\ room_ops' = room_ops + 1
    /\ UNCHANGED <<serveVars, chunkVars, sendVars, identityVars>>

\* The state after an operation on the room
Operate(op, done) ==
    /\ room_obj' = done.room
    /\ lookups' = lookups + done.lookups
    /\ room_op' = [op |-> op, raised |-> done.raised, value |-> done.value]
    /\ room_fired' = done.fired
    /\ room_requests' = done.requests
    /\ room_ops' = room_ops + 1
    /\ UNCHANGED <<room_driver, serveVars, chunkVars, sendVars, identityVars>>

\* A plugin, or the backend itself, reads room.id
ReadId ==
    /\ room_obj # NoRoom
    /\ room_ops < MaxRoomOps
    /\ \E answer \in Answers(room_obj) :
          Operate("id", room_id(room_obj, room_driver, answer))

\* A plugin calls room.destroy()
Destroy ==
    /\ room_obj # NoRoom
    /\ room_ops < MaxRoomOps
    /\ \E answer \in Answers(room_obj), deleted \in Outcomes :
          Operate("destroy", destroy(room_obj, room_driver, answer, deleted))

\* A plugin calls room.create()
Create ==
    /\ room_obj # NoRoom
    /\ room_ops < MaxRoomOps
    /\ \E created \in Outcomes, found \in Outcomes :
          Operate("create", create(room_obj, room_driver, created, found))

\* A plugin calls room.join()
Join ==
    /\ room_obj # NoRoom
    /\ room_ops < MaxRoomOps
    /\ \E listed \in BOOLEAN, created \in Outcomes, found \in Outcomes,
          added \in Outcomes :
          Operate("join", join(room_obj, room_driver, listed, created, found, added))

\* A plugin calls room.leave()
Leave ==
    /\ room_obj # NoRoom
    /\ room_ops < MaxRoomOps
    /\ \E answer \in Answers(room_obj), has_id \in BOOLEAN, removed \in Outcomes :
          Operate("leave", leave(room_obj, room_driver, answer, has_id, removed))

\* A plugin assigns room.topic
SetTopic ==
    /\ room_obj # NoRoom
    /\ room_ops < MaxRoomOps
    /\ \E answer \in Answers(room_obj), updated \in Outcomes :
          Operate("topic", set_topic(room_obj, room_driver, answer, updated))

\* A plugin assigns room.purpose
SetPurpose ==
    /\ room_obj # NoRoom
    /\ room_ops < MaxRoomOps
    /\ \E answer \in Answers(room_obj), updated \in Outcomes :
          Operate("purpose", set_purpose(room_obj, room_driver, answer, updated))

\* A plugin calls room.invite(*args)
Invite ==
    /\ room_obj # NoRoom
    /\ room_ops < MaxRoomOps
    /\ \E answer \in Answers(room_obj), not_in_channel \in {<<>>, <<"u2">>},
          args \in {<<>>, <<"bob">>} :
          Operate("invite", invite(room_obj, room_driver, answer, not_in_channel, args))

NextRoom ==
    \/ ServeOnce
    \/ GetRoom
    \/ ReadId
    \/ Destroy
    \/ Create
    \/ Join
    \/ Leave
    \/ SetTopic
    \/ SetPurpose
    \/ Invite

SpecRoom == Init /\ [][NextRoom]_vars

-----------------------------------------------------------------------------
(* send_message. body is message.body as md.convert returns it: the texts    *)
(* explored hold no Markdown-Extra attribute list, the one thing the         *)
(* converter takes out. The platform may refuse any create_post request.     *)

\* users.get_user: the 'username' of a user, Absent in an error answer
get_user(userid) ==
    CASE userid = "u1" -> "alice"
      [] userid = "u2" -> "bob"
      [] OTHER -> Absent

\* MattermostPerson.username
username(person) ==
    IF get_user(person.userid) = Absent THEN "<" \o person.userid \o ">"
    ELSE get_user(person.userid)

\* The recipients explored: a room that knows its id, rooms known by name, a
\* person with a direct channel, a person built without one (as the
\* status_change handler builds it), and room occupants
Recipients ==
    { MattermostRoom(None, "c1", BoundTeam).value,
      MattermostRoom("general", None, BoundTeam).value,
      MattermostRoom("nothere", None, BoundTeam).value,
      MattermostPerson("u1", "d1", BoundTeam),
      MattermostPerson("u1", None, None),
      MattermostRoomOccupant(BoundTeam, "u1", "c1").value,
      MattermostRoomOccupant(BoundTeam, UnknownUser, "c1").value }

\* The text s written n times
RECURSIVE Repeat(_, _)
Repeat(s, n) ==
    IF n = 0 THEN ""
    ELSE IF n % 2 = 0 THEN LET half == Repeat(s, n \div 2) IN half \o half
    ELSE s \o Repeat(s, n - 1)

\* Bodies of the length of the cap and beyond it: plain text and fixed blocks
LongBodies ==
    { Repeat("a", PlatformMessageLimit),
      Repeat("a", 2 * MATTERMOST_MESSAGE_LIMIT),
      Fence \o Repeat("a", MATTERMOST_MESSAGE_LIMIT - Len(Fence)),
      Fence \o Repeat("a", 2 * MATTERMOST_MESSAGE_LIMIT - Len(Fence)) }

ShortBodies == UNION {TextsOfLen(n) : n \in 0..MaxSendLen}

\* The values of MESSAGE_SIZE_LIMIT of a production configuration
LargeLimits == {MATTERMOST_MESSAGE_LIMIT, PlatformMessageLimit}

\* The pairs of a body and a MESSAGE_SIZE_LIMIT explored: a long body is not
\* cut into parts of a few characters
SendInputs ==
    (ShortBodies \X ((1..MaxLimit) \cup LargeLimits)) \cup (LongBodies \X LargeLimits)

\* What the platform may do to the create_post requests of a message of n
\* parts: accept them all, or refuse the one for part at with exception exc
PostErrors == {"InvalidOrMissingParameters", "NotEnoughPermissions",
               "ContentTooLarge", "ResourceNotFound"}
Failures(n) ==
    {[at |-> 0, exc |-> None]} \cup {[at |-> k, exc |-> e] : k \in 1..n, e \in PostErrors}

\* A posting loop that goes on with the next part after a refused request
create_posts_all(split, channel_id, refused) ==
    [i \in 1..Len(split) |-> [channel_id |-> channel_id, message |-> split[i]]]

\* send_message, lines 435-439: the create_post requests issued, the refused
\* one included
create_posts(split, channel_id, refused) ==
    [i \in 1..(IF refused.at \in 1..Len(split) THEN refused.at ELSE Len(split)) |->
        [channel_id |-> channel_id, message |-> split[i]]]

\* send_message, line 440: the exceptions the except clause catches and logs
caught_by_send_message == {"InvalidOrMissingParameters", "NotEnoughPermissions"}

\* send_message, lines 410-423: the channel id to post to. A room's name is
\* never empty here, so channelid_to_channelname is not called.
to_channel_id(to, cache) ==
    CASE to.kind = "Room" ->
           LET read == room_id(to, "Driver", get_channel_by_name(to.name))
           IN  [raised |-> read.raised, value |-> read.value, to |-> read.room,
                cache |-> cache]
      [] to.kind = "RoomOccupant" ->
           LET userid == username_to_userid(username(to))
               channel == get_direct_channel(userid_of_bot, userid.value, cache)
           IN  IF userid.raised
               THEN [raised |-> TRUE, value |-> userid.value, to |-> to, cache |-> cache]
               ELSE [raised |-> channel.raised, value |-> channel.value, to |-> to,
                     cache |-> channel.cache]
      [] OTHER -> [raised |-> FALSE, value |-> to.channelid, to |-> to, cache |-> cache]

\* MattermostBackend.send_message. The platform refuses a post to no channel.
send_message(to, text, config, fail, cache) ==
    LET target == to_channel_id(to, cache)
        limit == Min(config, MATTERMOST_MESSAGE_LIMIT)
        split == prepare_message_body(text, limit)
        refused == IF target.value = None /\ split # <<>>
                   THEN [at |-> 1, exc |-> "InvalidOrMissingParameters"]
                   ELSE fail
    IN  IF target.raised
        THEN [result |-> target.value, posts |-> <<>>, parts |-> <<>>,
              limit |-> size_limit, refused |-> [at |-> 0, exc |-> None],
              to |-> target.to, cache |-> target.cache]
        ELSE [result |-> IF refused.at = 0 \/ refused.exc \in caught_by_send_message
                         THEN "returned" ELSE refused.exc,
              posts |-> create_posts(split, target.value, refused),
              parts |-> split, limit |-> limit, refused |-> refused,
              to |-> target.to, cache |-> target.cache]

\* A plugin, or the framework, calls send_message; before serve_once has
\* logged in there is no driver to send with
SendMessage ==
    /\ send_result = "none"
    /\ \E to \in Recipients, input \in SendInputs :
         \E fail \in IF bot_identifier = NoPerson THEN Failures(0)
                     ELSE Failures(Len(prepare_message_body(
                                          input[1],
                                          Min(input[2], MATTERMOST_MESSAGE_LIMIT)))) :
         \E sent \in {IF bot_identifier = NoPerson
                      THEN [result |-> not_logged_in.value, posts |-> <<>>,
                            parts |-> <<>>, limit |-> size_limit, refused |-> fail,
                            to |-> to, cache |-> direct_cache]
                      ELSE send_message(to, input[1], input[2], fail, direct_cache)} :
             /\ message_to' = sent.to
             /\ body' = input[1]
             /\ config_limit' = input[2]
             /\ size_limit' = sent.limit
             /\ parts' = sent.parts
             /\ post_failure' = sent.refused
             /\ posts' = sent.posts
             /\ send_result' = sent.result
             /\ direct_cache' = sent.cache
    /\ UNCHANGED <<pc, calls, entered, result, teamid, bot_identifier, received,
                   payload, outcome, fired, hellos, connected, disconnected, late,
                   exit, prev, chunked>>
    /\ UNCHANGED <<identityVars, roomVars>>

NextSend ==
    \/ ServeOnce
    \/ SendMessage

SpecSend == Init /\ [][NextSend]_vars

-----------------------------------------------------------------------------
(* Properties of the event stream *)

\* The last payload was a JSON object of the given event kind
LastEvent(kind) ==
    outcome # "none" /\ payload.json = "object" /\ payload.event = kind

\* The last payload was a JSON object of one of the five known kinds
LastKnownEvent ==
    outcome # "none" /\ payload.json = "object" /\ payload.event \in event_handlers

\* The last payload carries a team id that is set and is not the bound team's
CrossTeam ==
    /\ payload.data.present
    /\ payload.data.team_id \notin {Absent, ""}
    /\ payload.data.team_id # teamid

\* C1: an event of any of the five kinds whose team id is set and differs from
\* the bound team id fires no callback at all.
C1_CrossTeamFiresNothing ==
    (LastKnownEvent /\ CrossTeam) => fired = <<>>

\* C2: an exception raised inside a per-kind handler never leaves
\* mattermost_event_handler: the dispatcher returns normally, and the loop goes
\* on to dispatch the next event.
C2_HandlerExceptionNeverEscapes ==
    /\ LastKnownEvent => outcome \in {"returned", "caught"}
    /\ (outcome = "caught" /\ pc = "serving") => Listening
    /\ (outcome = "caught" /\ pc = "serving" /\ received < MaxEvents)
          => ENABLED Dispatch

\* C2 witness: a handler raised, the exception was caught, and the event after
\* it was handled and fired its callbacks.
C2_Witness ==
    prev = "caught" /\ outcome = "returned" /\ fired # <<>>

\* The last payload was malformed: not JSON, or not an object with an 'event'
Malformed ==
    /\ outcome # "none"
    /\ \/ payload.json \in {"invalid", "scalar", "array", "array_event", "string",
                             "string_event", "object_unhashable_event"}
       \/ payload.json = "object" /\ payload.event = Absent

\* C3: every payload, a malformed one included, is dropped without raising and
\* without a callback, and the stream goes on.
C3_MalformedPayloadDropped ==
    Malformed => (outcome = "returned" /\ fired = <<>> /\ (pc = "serving" => Listening))

\* The backend state an event of an unknown kind must leave alone
backendState ==
    <<pc, calls, entered, result, exit, teamid, bot_identifier, direct_cache,
      hellos, connected, disconnected, late>>

\* C4: an event of a kind outside the dispatch table fires no callback, changes
\* no backend state and does not raise, and the loop stays ready for the
\* events after it.
C4_UnknownKindIgnored ==
    [][ (received' = received + 1 /\ payload'.json = "object"
           /\ payload'.event \notin (event_handlers \cup {Absent}))
        => (/\ fired' = <<>>
            /\ outcome' = "returned"
            /\ Listening'
            /\ UNCHANGED backendState) ]_vars

\* C4 witness: an event of an unknown kind was ignored and the known event
\* after it fired its callbacks.
C4_Witness ==
    prev = "ignored" /\ LastKnownEvent /\ fired # <<>>

\* The channel id the posted handler settles on
PostedChannelId ==
    IF payload.data.channel_id # Absent THEN payload.data.channel_id
    ELSE payload.broadcast.channel_id

\* C5: a posted event that reaches the message callback is addressed directly
\* for channel type D (a Person to the bot's Person on the same channel id), as
\* a group for O and P (a RoomOccupant to the Room named by channel_name); an
\* event of any other channel type fires no callback.
C5_AddressingByChannelType ==
    LastEvent("posted") =>
        /\ payload.data.channel_type \notin {"D", "O", "P"} => fired = <<>>
        /\ fired # <<>> =>
              LET msg == fired[1].msg
              IN  /\ fired[1].cb = "message"
                  /\ payload.data.channel_type = "D" =>
                        /\ msg.frm.kind = "Person"
                        /\ msg.frm.channelid = PostedChannelId
                        /\ msg.to = MattermostPerson(bot_identifier.userid,
                                                     PostedChannelId, teamid)
                  /\ payload.data.channel_type \in {"O", "P"} =>
                        /\ msg.frm.kind = "RoomOccupant"
                        /\ msg.frm.room.id = PostedChannelId
                        /\ msg.to.kind = "Room"
                        /\ msg.to.name = payload.data.channel_name

\* C5 witness: a posted event of a private channel reached the message callback.
C5_Witness ==
    /\ LastEvent("posted")
    /\ payload.data.channel_type = "P"
    /\ fired # <<>>
    /\ fired[1].cb = "message"
    /\ fired[1].msg.to.kind = "Room"

-----------------------------------------------------------------------------
(* Properties of the chunker *)

\* C6: every part returned by prepare_message_body has length at most the
\* size limit, fences included.
C6_PartsWithinLimit ==
    chunked => \A i \in 1..Len(parts) : Len(parts[i]) <= size_limit

\* C6 as amended: every part is a slice of the body of at most size_limit
\* characters, with the 4-character opening fence possibly prepended and the
\* 5-character closing fence possibly appended; its length is at most
\* size_limit + 9.
C6_PartsWithinLimitPlusFences ==
    chunked =>
        LET split == split_string_after(body, size_limit)
        IN  /\ Len(parts) = Len(split)
            /\ \A i \in 1..Len(parts) :
                  /\ Len(split[i]) <= size_limit
                  /\ parts[i] \in {split[i], OpenFence \o split[i],
                                    split[i] \o CloseFence,
                                    OpenFence \o split[i] \o CloseFence}
                  /\ Len(parts[i]) <= size_limit + Len(OpenFence) + Len(CloseFence)

\* C6 witness: a part that carries both fences and is size_limit + 9 long.
C6_Witness ==
    chunked /\ \E i \in 1..Len(parts) :
        Len(parts[i]) = size_limit + Len(OpenFence) + Len(CloseFence)

\* C7: every part returned by prepare_message_body holds an even number of
\* triple-backtick markers, in a single-part and in a multi-part result.
C7_EvenFences ==
    chunked => \A i \in 1..Len(parts) : count(parts[i], Fence) % 2 = 0

\* C7 witness: a multi-part result in which a part that held one marker got a
\* continuation fence prepended, which balanced it, and another part got the
\* closing fence appended.
C7_Witness ==
    /\ chunked
    /\ Len(parts) >= 2
    /\ \E i, j \in 1..Len(parts) :
          LET split == split_string_after(body, size_limit)
          IN  /\ count(split[i], Fence) = 1
              /\ parts[i] = OpenFence \o split[i]
              /\ parts[j] = split[j] \o CloseFence

-----------------------------------------------------------------------------
(* Properties of the connection lifecycle *)

\* C8: once serve_once is in its try block, every way out, the interrupt that
\* returns True and the error that does not, invokes the disconnect callback
\* exactly once, and no event callback fires after it.
C8_DisconnectExactlyOnce ==
    /\ pc = "serving" => disconnected = 0
    /\ (pc = "idle" /\ entered) => disconnected = 1
    /\ late = 0
    /\ exit = "KeyboardInterrupt" => result = "True"
    /\ exit = "Exception" => result # "True"

\* C8 witness: a connection that handled events ended on an error.
C8_Witness ==
    pc = "idle" /\ exit = "Exception" /\ received > 0 /\ disconnected = 1

\* C9: on one connection the connected callback is invoked exactly once, on
\* the first hello; later hellos do not invoke it again.
C9_ConnectedOncePerConnection ==
    /\ connected <= 1
    /\ hellos >= 1 => connected = 1

\* C9 as amended: the connected callback is invoked once for every hello event
\* of the connection, the first and every later one.
C9_ConnectedOncePerHello ==
    connected = hellos

\* C9 witness: a second hello on the same connection invoked the callback again.
C9_Witness ==
    LastEvent("hello") /\ hellos = 2 /\ connected = 2

\* C10: every hello results in exactly one presence callback, Online for the
\* bot's own identity, emitted after the connected callback of that hello.
C10_HelloPresenceAfterConnected ==
    LastEvent("hello") =>
        /\ CountCallbacks(fired, "presence") = 1
        /\ \E i, j \in 1..Len(fired) :
              /\ i < j
              /\ fired[i].cb = "connected"
              /\ fired[j] = [cb |-> "presence", identifier |-> bot_identifier,
                             status |-> ONLINE]
        /\ \A i, j \in 1..Len(fired) :
              (fired[i].cb = "presence" /\ fired[j].cb = "connected") => j < i
        /\ bot_identifier.userid = BotId

\* C10 witness: a hello that is not the first of its connection.
C10_Witness ==
    LastEvent("hello") /\ hellos = 2 /\ Len(fired) = 2

-----------------------------------------------------------------------------
(* Properties of membership events and of identifier resolution *)

\* C11: a user_added event fires exactly one room-joined callback when its
\* data.user_id is the bot's id and no callback otherwise; a user_removed event
\* fires exactly one room-left callback when its broadcast.user_id is the bot's
\* id and no callback otherwise.
C11_MembershipCallbacks ==
    /\ LastEvent("user_added") =>
          fired = IF payload.data.present /\ payload.data.user_id = userid_of_bot
                  THEN <<[cb |-> "room_joined"]>> ELSE <<>>
    /\ LastEvent("user_removed") =>
          fired = IF payload.broadcast.present
                     /\ payload.broadcast.user_id = userid_of_bot
                  THEN <<[cb |-> "room_left"]>> ELSE <<>>

\* C11 witness: the bot was removed from a channel, after another user had been
\* added to one without any callback.
C11_Witness ==
    /\ LastEvent("user_removed")
    /\ payload.broadcast.user_id = BotId
    /\ fired = <<[cb |-> "room_left"]>>
    /\ prev = "handled"

\* C12: build_identifier gives, for a text it resolved to a Person before, a
\* Person with the same userid and the same direct-channel id, and the platform
\* is asked only once to create the direct channel of the bot and a given user:
\* later resolutions are answered from the cache.
C12_SecondResolutionFromCache ==
    /\ (resolution.op = "build_identifier" /\ ~resolution.raised
           /\ resolution.value.kind = "Person") =>
          /\ resolved[resolution.arg].times >= 1
          /\ resolution.value.userid = resolved[resolution.arg].first.userid
          /\ resolution.value.channelid = resolved[resolution.arg].first.channelid
    /\ \A u \in UserIds :
          ~create_direct_message_channel(BotId, u).raised => dm_calls[u] <= 1

\* C12 witness: '@alice' has been resolved twice and the platform was asked once.
C12_Witness ==
    /\ resolution.op = "build_identifier"
    /\ resolution.arg = "@alice"
    /\ ~resolution.raised
    /\ resolved["@alice"].times = 2
    /\ resolved["u1"].times = 0
    /\ dm_calls["u1"] = 1

\* The rooms the last call of a plugin constructed
ConstructedRooms ==
    IF resolution.raised THEN {}
    ELSE CASE resolution.op = "query_room" -> {resolution.value}
           [] resolution.op = "rooms" ->
                 {resolution.value[i] : i \in 1..Len(resolution.value)}
           [] resolution.op = "build_identifier" ->
                 IF resolution.value.kind = "Room" THEN {resolution.value} ELSE {}
           [] OTHER -> {}

\* C15: every Room that was constructed successfully, at any point, also before
\* serve_once has bound the team, carries a teamid that is neither missing nor
\* empty.
C15_RoomsCarryTeam ==
    \A r \in ConstructedRooms : r.teamid \notin {None, ""}

-----------------------------------------------------------------------------
(* Properties of posted events: mentions and the sender *)

\* The last payload with its data.mentions field taken out
WithoutMentions == [payload EXCEPT !.data.mentions = NoMentions]

\* C13: a mention that cannot be resolved does not make the handling of a posted
\* event fail: the event still produces the message callback it produces
\* without its mention list.
C13_BadMentionTolerated ==
    (/\ LastEvent("posted")
     /\ payload.data.present
     /\ payload.data.mentions.form = "list"
     /\ message_event_handler(WithoutMentions).fired # <<>>)
        => /\ outcome = "returned"
           /\ fired # <<>>
           /\ fired[1] = message_event_handler(WithoutMentions).fired[1]

\* C16: the sender of the message of a posted event that embeds a post is the
\* user_id of that post.
C16_SenderIsPostUser ==
    (/\ LastEvent("posted")
     /\ payload.data.present
     /\ payload.data.post.form = "object"
     /\ fired # <<>>)
        => fired[1].msg.frm.userid = payload.data.post.user_id

\* C17: a mention callback is the second callback of its event, fired after the
\* message callback for the same message; its mention list is not empty and
\* holds no identity of the bot. An event without a message callback has no
\* mention callback.
C17_MentionAfterMessage ==
    \A i \in 1..Len(fired) :
        fired[i].cb = "mention" =>
            /\ i = 2
            /\ fired[1].cb = "message"
            /\ fired[1].msg = fired[i].msg
            /\ fired[i].mentions # <<>>
            /\ \A j \in 1..Len(fired[i].mentions) :
                  fired[i].mentions[j].userid # bot_identifier.userid

\* C17 witness: a post that mentions the bot and another user; the mention
\* callback carries the other user alone.
C17_Witness ==
    /\ LastEvent("posted")
    /\ payload.data.mentions.ids = <<BotId, "u2">>
    /\ Len(fired) = 2
    /\ fired[2].cb = "mention"
    /\ Len(fired[2].mentions) = 1
    /\ fired[2].mentions[1].userid = "u2"

-----------------------------------------------------------------------------
(* Properties of a room's channel id *)

-----------------------------------------------------------------------------
(* Properties of send_message *)

\* send_message has been called and has reached its posting loop
Posting == send_result # "none" /\ parts # <<>>

\* C14: a create_post request refused for insufficient permissions, for missing
\* or invalid parameters or for a resource too large is logged and swallowed:
\* send_message returns normally.
C14_PostFailuresSwallowed ==
    (/\ Posting
     /\ post_failure.at \in 1..Len(parts)
     /\ post_failure.exc \in {"NotEnoughPermissions", "InvalidOrMissingParameters",
                              "ContentTooLarge"})
        => send_result = "returned"

\* C19: the create_post requests of one send_message call follow the parts in
\* order, one request per part and all to the same channel; a part whose
\* request is refused is not asked for again and no later part is posted.
C19_PostsFollowParts ==
    send_result # "none" =>
        /\ Len(posts) <= Len(parts)
        /\ \A i \in 1..Len(posts) :
              /\ posts[i].message = parts[i]
              /\ posts[i].channel_id = posts[1].channel_id
              /\ message_to.kind = "Room" => posts[i].channel_id = message_to.id
        /\ post_failure.at \in 1..Len(parts) => Len(posts) = post_failure.at
        /\ post_failure.at = 0 => Len(posts) = Len(parts)

\* C19 witness: a message of three parts whose second request was refused.
C19_Witness ==
    /\ Posting
    /\ Len(parts) = 3
    /\ post_failure.at = 2
    /\ Len(posts) = 2
    /\ message_to.kind = "Room"

\* C20: every part that send_message hands to create_post is at most 4000
\* characters long, whatever the body and the configured MESSAGE_SIZE_LIMIT.
C20_PostsWithinPlatformLimit ==
    \A i \in 1..Len(posts) : Len(posts[i].message) <= PlatformMessageLimit

-----------------------------------------------------------------------------
(* Properties of the operations on a room *)

\* C21: every platform request of a room operation that names a channel id
\* names the room's resolved channel id, never the unresolved placeholder None.
C21_RequestsNameResolvedId ==
    \A i \in 1..Len(room_requests) :
        /\ room_requests[i].channel_id # None
        /\ room_obj.id # None => room_requests[i].channel_id = room_obj.id

\* C22: a join that succeeds fires the room-joined callback exactly once,
\* whether the channel was listed or join had to create it first; a join that
\* fails with a platform error raises RoomError, and its add-user step fires
\* no room-joined callback.
C22_JoinFiresOnce ==
    room_op.op = "join" =>
        /\ ~room_op.raised => CountCallbacks(room_fired, "room_joined") = 1
        /\ (room_op.raised /\ room_op.value # "AttributeError") =>
              /\ room_op.value = "RoomError"
              /\ \A i \in 1..Len(room_fired) : room_fired[i].by # "join"

====
